---- MODULE Spec2Model ----
(***************************************************************************)
(* Model of cert-manager's promise manager (lib/countdown.js: Countdown,   *)
(* ListCountdown, KeyCountdown) and of the renewal loop of the main script *)
(* that drives it.                                                         *)
(*                                                                         *)
(* Three harnesses share the definitions that model the classes:           *)
(*   SpecCountdown  one ListCountdown or KeyCountdown instance on which a  *)
(*                  caller registers operations that settle later;         *)
(*   SpecPack       one ListCountdown.pack run over a list of items;       *)
(*   SpecMapping    one mapping of the main script: scan, then pack with   *)
(*                  the sign/push promiser.                                *)
(* Promise reactions (then/catch callbacks) are actions; the order in      *)
(* which outstanding I/O settles is free.                                  *)
(***************************************************************************)
EXTENDS Integers, Sequences, FiniteSets, TLC

\* ---------------------------------------------------------------- bounds
MaxOps == 3
MaxItems == 4
MaxCount == 3
MaxCerts == 3
MaxConcurrency == 2
MaxFiles == 2
MaxTime == 3
MaxNow == 1
MaxHours == 2
MaxMaps == 2

Keys == {"csr", "crt"}

VARIABLES
  self,      \* the top Countdown instance: pending, values, errors, keyset, errset, calls
  kind,      \* "List" or "Key": the concrete class of self
  nreg,      \* number of operations the caller registers on self
  ops,       \* the operations registered so far: key, outcome, state
  lateReg,   \* an operation was registered after another had settled
  cbThrows,  \* the resolve callback given to self's constructor raises
  order,     \* the registered operations in the order in which they settled
  items,     \* pack: the input list
  count,     \* pack: the size of each bundle
  outcome,   \* what promiser(item) does for each item
  packs,     \* pack: the bundles chained, in order
  chain,     \* state of the promise returned by the k-th _chain call
  inner,     \* state of the k-th bundle's new Promise((resolve, reject) => ...)
  reason,    \* rejection reason of each inner promise
  cds,       \* the ListCountdown created for each bundle
  st,        \* per item: "idle", "outstanding", "settled", "threw"
  pc,        \* position of the pack run
  mapSt,     \* main script: position of the mapping
  cfg,       \* main script: which fields of the mapping resolve to a value
  signSt,    \* per cert: state of the promise of provider.sign
  pushSt,    \* per cert: state of the promise of scanner.push
  log,       \* winston messages written by the main script
  fsPc,      \* FileScanner: position of the method being run
  fsOut,     \* FileScanner: state and value of the promise the method returned
  recs,      \* FileScanner: what each read or discovered file yields
  now,       \* the clock, as moment() reads it
  hours,     \* FileScanner.scan: hoursToExp
  mi,        \* main script: index of the mapping that forEach visits next
  maps,      \* main script: the shape of each configured mapping
  mst        \* main script: position of each mapping's run

cdVars == <<self, kind, nreg, ops, lateReg, cbThrows, order>>
packVars == <<items, count, outcome, packs, chain, inner, reason, cds, st, pc>>
mapVars == <<mapSt, cfg, signSt, pushSt, log>>
restVars == <<fsPc, fsOut, recs, now, hours, mi, maps, mst>>
loopVars == <<mi, maps, mst>>
vars == <<self, kind, nreg, ops, lateReg, items, count, outcome, packs, chain,
          inner, reason, cds, st, pc, mapSt, cfg, signSt, pushSt, log,
          cbThrows, order, fsPc, fsOut, recs, now, hours, mi, maps, mst>>

\* ------------------------------------------------------------- countdown.js

NoReason == <<>>
EmptyMap == [k \in {} |-> NoReason]

\* Countdown.constructor, ListCountdown.constructor, KeyCountdown.constructor;
\* calls counts the invocations of this.resolve
Countdown == [pending |-> 0, values |-> <<>>, errors |-> <<>>,
              keyset |-> EmptyMap, errset |-> EmptyMap, calls |-> 0]

\* Countdown.end
end(cd, n) ==
  LET p == cd.pending - n
  IN  [cd EXCEPT !.pending = p,
                 !.calls = IF p = 0 THEN @ + 1 ELSE @]

\* obj[key] = value
Assign(obj, key, value) ==
  [k \in DOMAIN obj \cup {key} |-> IF k = key THEN value ELSE obj[k]]

\* ListCountdown.push, the synchronous part: self.pending += 1
push(cd) == [cd EXCEPT !.pending = @ + 1]

\* ListCountdown.push, (data) => { self.values.push(data); self.end(1) }
pushThen(cd, data) == end([cd EXCEPT !.values = Append(@, data)], 1)

\* ListCountdown.push, (err) => { self.errors.push(err); self.end(1) }
pushCatch(cd, err) == end([cd EXCEPT !.errors = Append(@, err)], 1)

\* KeyCountdown.add, the synchronous part: self.pending += 1
add(cd) == [cd EXCEPT !.pending = @ + 1]

\* KeyCountdown.add, (data) => { self.keyset[key] = data; self.end(1) }
addThen(cd, key, data) == end([cd EXCEPT !.keyset = Assign(@, key, data)], 1)

\* KeyCountdown.add, (err) => { self.errset[key] = err; self.end(1) }
addCatch(cd, key, err) == end([cd EXCEPT !.errset = Assign(@, key, err)], 1)

\* values carried by the promises of the harnesses
Data(i) == <<"value", i>>
Err(i) == <<"error", i>>
Thrown(i) == <<"thrown", i>>
TypeError(i) == <<"TypeError", i>>

\* ------------------------------------------------ harness: one Countdown

SomeSettled == \E j \in 1..Len(ops) : ops[j].state = "settled"

\* the caller registers one more promise with cd.push(promise)
RegisterPush(o) ==
  /\ kind = "List"
  /\ Len(ops) < nreg
  /\ self' = push(self)
  /\ ops' = Append(ops, [key |-> "none", outcome |-> o, state |-> "pending"])
  /\ lateReg' = (lateReg \/ SomeSettled)
  /\ UNCHANGED <<kind, nreg, cbThrows, order>>
  /\ UNCHANGED packVars
  /\ UNCHANGED mapVars
  /\ UNCHANGED restVars

\* the caller registers one more promise with cd.add(key, promise)
RegisterAdd(key, o) ==
  /\ kind = "Key"
  /\ Len(ops) < nreg
  /\ self' = add(self)
  /\ ops' = Append(ops, [key |-> key, outcome |-> o, state |-> "pending"])
  /\ lateReg' = (lateReg \/ SomeSettled)
  /\ UNCHANGED <<kind, nreg, cbThrows, order>>
  /\ UNCHANGED packVars
  /\ UNCHANGED mapVars
  /\ UNCHANGED restVars

\* this.resolve(this) was invoked between two states of a countdown
Fired(before, after) == after.calls > before.calls

\* a callback of push or add that calls end(1) raises: end has invoked a
\* resolve callback that raises
Raises(before, after) == cbThrows /\ Fired(before, after)

\* the j-th registered promise resolves: the then-callback of push or add
\* runs; when it raises, the promise it was attached to rejects and the
\* catch-callback chained behind it is due
SettleResolve(j) ==
  /\ j \in 1..Len(ops)
  /\ ops[j].state = "pending"
  /\ ops[j].outcome = "resolve"
  /\ LET cd == IF kind = "List" THEN pushThen(self, Data(j))
                                ELSE addThen(self, ops[j].key, Data(j))
     IN  /\ self' = cd
         /\ ops' = [ops EXCEPT ![j].state =
                      IF Raises(self, cd) THEN "raised" ELSE "settled"]
  /\ order' = Append(order, j)
  /\ UNCHANGED <<kind, nreg, lateReg, cbThrows>>
  /\ UNCHANGED packVars
  /\ UNCHANGED mapVars
  /\ UNCHANGED restVars

\* the then-callback of the j-th promise raised: .catch((err) => { ... })
\* runs with the exception
SettleRaised(j) ==
  /\ j \in 1..Len(ops)
  /\ ops[j].state = "raised"
  /\ self' = IF kind = "List" THEN pushCatch(self, Thrown(j))
                              ELSE addCatch(self, ops[j].key, Thrown(j))
  /\ ops' = [ops EXCEPT ![j].state = "settled"]
  /\ UNCHANGED <<kind, nreg, lateReg, cbThrows, order>>
  /\ UNCHANGED packVars
  /\ UNCHANGED mapVars
  /\ UNCHANGED restVars

\* the j-th registered promise rejects: the catch-callback of push or add
\* runs; nothing is chained behind it
SettleReject(j) ==
  /\ j \in 1..Len(ops)
  /\ ops[j].state = "pending"
  /\ ops[j].outcome = "reject"
  /\ self' = IF kind = "List" THEN pushCatch(self, Err(j))
                              ELSE addCatch(self, ops[j].key, Err(j))
  /\ ops' = [ops EXCEPT ![j].state = "settled"]
  /\ order' = Append(order, j)
  /\ UNCHANGED <<kind, nreg, lateReg, cbThrows>>
  /\ UNCHANGED packVars
  /\ UNCHANGED mapVars
  /\ UNCHANGED restVars

\* variables of the harnesses that are not running
PackIdle ==
  /\ items = <<>>
  /\ count = 1
  /\ outcome = <<>>
  /\ packs = <<>>
  /\ chain = <<>>
  /\ inner = <<>>
  /\ reason = <<>>
  /\ cds = <<>>
  /\ st = <<>>
  /\ pc = "off"

MapIdle ==
  /\ mapSt = "off"
  /\ cfg = "none"
  /\ signSt = <<>>
  /\ pushSt = <<>>
  /\ log = {}

CdIdle ==
  /\ kind = "List"
  /\ nreg = 0
  /\ ops = <<>>
  /\ lateReg = FALSE
  /\ cbThrows = FALSE
  /\ order = <<>>

FsIdle ==
  /\ fsPc = "off"
  /\ fsOut = [state |-> "none", value |-> NoReason]
  /\ recs = <<>>
  /\ now = 0
  /\ hours = 0

LoopIdle ==
  /\ mi = 0
  /\ maps = <<>>
  /\ mst = <<>>

InitCountdown ==
  /\ self = Countdown
  /\ kind \in {"List", "Key"}
  /\ nreg \in 0..MaxOps
  /\ ops = <<>>
  /\ lateReg = FALSE
  /\ cbThrows \in BOOLEAN
  /\ order = <<>>
  /\ PackIdle
  /\ MapIdle
  /\ FsIdle
  /\ LoopIdle

NextCountdown ==
  \/ \E o \in {"resolve", "reject"} : RegisterPush(o)
  \/ \E key \in Keys, o \in {"resolve", "reject"} : RegisterAdd(key, o)
  \/ \E j \in 1..MaxOps + 1 : SettleResolve(j)
  \/ \E j \in 1..MaxOps + 1 : SettleRaised(j)
  \/ \E j \in 1..MaxOps + 1 : SettleReject(j)

SpecCountdown == InitCountdown /\ [][NextCountdown]_vars


\* ---------------------------------------------------- ListCountdown.pack

\* ToBoolean of an array object, as in `if (pack)`: an object is truthy,
\* also when the array is empty
ToBoolean(array) == TRUE

\* the for loop of pack: the items still to visit, the current pack and the
\* packs handed to _chain so far
RECURSIVE packLoop(_, _, _, _)
packLoop(rest, pk, n, chained) ==
  IF rest = <<>> THEN [pack |-> pk, chained |-> chained]
  ELSE LET p == Append(pk, Head(rest))
       IN  IF Len(p) >= n
             THEN packLoop(Tail(rest), <<>>, n, Append(chained, p))
             ELSE packLoop(Tail(rest), p, n, chained)

\* the packs that pack(items, count, promiser) hands to _chain, in order
Bundles(its, n) ==
  LET r == packLoop(its, <<>>, n, <<>>)
  IN  IF ToBoolean(r.pack) THEN Append(r.chained, r.pack) ELSE r.chained

\* pack, the synchronous part: every _chain call only attaches reactions
pack(its, n) ==
  LET b == Bundles(its, n)
  IN  /\ packs' = b
      /\ chain' = [k \in 1..Len(b) |-> "pending"]
      /\ inner' = [k \in 1..Len(b) |-> "none"]
      /\ reason' = [k \in 1..Len(b) |-> NoReason]
      /\ cds' = [k \in 1..Len(b) |-> Countdown]
      /\ pc' = "chained"

\* a _chain that starts a pack as soon as the pack before it has been started
PrevStarted(k) == IF k = 1 THEN TRUE ELSE inner[k - 1] # "none"

\* the promise a _chain call is given has been fulfilled: Promise.resolve()
\* for the first pack, the previous _chain's promise for the others
PrevFulfilled(k) == IF k = 1 THEN TRUE ELSE chain[k - 1] = "fulfilled"

PrevRejected(k) == IF k = 1 THEN FALSE ELSE chain[k - 1] = "rejected"

\* what promiser(item) does: "resolve" and "reject" return a promise that
\* settles so later, "throw" throws synchronously, "renew" is the promiser of
\* the main script, which starts provider.sign and returns undefined
promiser(item) == outcome[item]

\* _chain, the executor's for loop over the pack: try { cd.push(promiser(item)) }
\* catch (err) { reject(err) }
RECURSIVE executor(_, _)
executor(pk, acc) ==
  IF pk = <<>> THEN acc
  ELSE
    LET item == Head(pk)
        r == promiser(item)
        first(e) == IF acc.rejected THEN acc.reason ELSE e
    IN  CASE r = "throw" ->
               \* promiser throws: cd.push is not reached
               executor(Tail(pk),
                        [acc EXCEPT !.st[item] = "threw",
                                    !.rejected = TRUE,
                                    !.reason = first(Thrown(item))])
          [] r = "renew" ->
               \* sign is started; push(undefined) counts the item and then
               \* throws on undefined.then
               executor(Tail(pk),
                        [acc EXCEPT !.cd = push(@),
                                    !.st[item] = "threw",
                                    !.sign[item] = "pending",
                                    !.rejected = TRUE,
                                    !.reason = first(TypeError(item))])
          [] OTHER ->
               executor(Tail(pk),
                        [acc EXCEPT !.cd = push(@),
                                    !.st[item] = "outstanding"])

\* _chain, promise.then(() => new Promise((resolve, reject) => { ... })):
\* the k-th pack is started
ChainStart(k) ==
  /\ pc \in {"chained", "caught", "done"}
  /\ k \in 1..Len(packs)
  /\ inner[k] = "none"
  /\ PrevFulfilled(k)
  /\ LET r == executor(packs[k], [cd |-> Countdown, st |-> st, sign |-> signSt,
                                  rejected |-> FALSE, reason |-> NoReason])
     IN  /\ cds' = [cds EXCEPT ![k] = r.cd]
         /\ st' = r.st
         /\ signSt' = r.sign
         /\ inner' = [inner EXCEPT ![k] = IF r.rejected THEN "rejected" ELSE "pending"]
         /\ reason' = [reason EXCEPT ![k] = r.reason]
  /\ UNCHANGED <<items, count, outcome, packs, chain, pc>>
  /\ UNCHANGED <<self, kind, nreg, ops, lateReg, cbThrows, order>>
  /\ UNCHANGED <<mapSt, cfg, pushSt, log>>
  /\ UNCHANGED restVars

\* the pack an item belongs to
GroupOf(i) ==
  CHOOSE k \in 1..Len(packs) : \E j \in 1..Len(packs[k]) : packs[k][j] = i

\* cd's resolve is the resolve function of the pack's promise: it fulfils the
\* promise unless the promise is already settled
Resolved(k, before, after) ==
  IF after.calls > before.calls /\ inner[k] = "pending" THEN "fulfilled" ELSE inner[k]

\* an item's promise resolves: the then-callback of cd.push runs
ItemResolve(i) ==
  /\ i \in DOMAIN st
  /\ st[i] = "outstanding"
  /\ promiser(i) = "resolve"
  /\ LET k == GroupOf(i)
         cd == pushThen(cds[k], Data(i))
     IN  /\ cds' = [cds EXCEPT ![k] = cd]
         /\ inner' = [inner EXCEPT ![k] = Resolved(k, cds[k], cd)]
  /\ st' = [st EXCEPT ![i] = "settled"]
  /\ UNCHANGED <<items, count, outcome, packs, chain, reason, pc>>
  /\ UNCHANGED <<self, kind, nreg, ops, lateReg, cbThrows, order>>
  /\ UNCHANGED mapVars
  /\ UNCHANGED restVars

\* an item's promise rejects: the catch-callback of cd.push runs
ItemReject(i) ==
  /\ i \in DOMAIN st
  /\ st[i] = "outstanding"
  /\ promiser(i) = "reject"
  /\ LET k == GroupOf(i)
         cd == pushCatch(cds[k], Err(i))
     IN  /\ cds' = [cds EXCEPT ![k] = cd]
         /\ inner' = [inner EXCEPT ![k] = Resolved(k, cds[k], cd)]
  /\ st' = [st EXCEPT ![i] = "settled"]
  /\ UNCHANGED <<items, count, outcome, packs, chain, reason, pc>>
  /\ UNCHANGED <<self, kind, nreg, ops, lateReg, cbThrows, order>>
  /\ UNCHANGED mapVars
  /\ UNCHANGED restVars

\* _chain, .then((cd) => { push.apply(self.errors, cd.errors);
\* push.apply(self.values, cd.values) })
ChainMerge(k) ==
  /\ k \in 1..Len(packs)
  /\ chain[k] = "pending"
  /\ inner[k] = "fulfilled"
  /\ self' = [self EXCEPT !.errors = @ \o cds[k].errors,
                          !.values = @ \o cds[k].values]
  /\ chain' = [chain EXCEPT ![k] = "fulfilled"]
  /\ UNCHANGED <<items, count, outcome, packs, inner, reason, cds, st, pc>>
  /\ UNCHANGED <<kind, nreg, ops, lateReg, cbThrows, order>>
  /\ UNCHANGED mapVars
  /\ UNCHANGED restVars

\* _chain: a rejection skips the then-callbacks; it comes from the pack's own
\* promise or from the promise the _chain call was given
ChainReject(k) ==
  /\ k \in 1..Len(packs)
  /\ chain[k] = "pending"
  /\ \/ /\ inner[k] = "rejected"
        /\ reason' = reason
     \/ /\ PrevRejected(k)
        /\ inner[k] = "none"
        /\ reason' = [reason EXCEPT ![k] = reason[k - 1]]
  /\ chain' = [chain EXCEPT ![k] = "rejected"]
  /\ UNCHANGED <<items, count, outcome, packs, inner, cds, st, pc>>
  /\ UNCHANGED <<self, kind, nreg, ops, lateReg, cbThrows, order>>
  /\ UNCHANGED mapVars
  /\ UNCHANGED restVars

\* the promise built by pack's loop: Promise.resolve() when nothing was chained
Last(state) ==
  IF Len(packs) = 0 THEN state = "fulfilled" ELSE chain[Len(packs)] = state

\* pack, prom.catch((err) => { self.errors.push(err) })
PackCatch ==
  /\ pc = "chained"
  /\ Last("rejected")
  /\ self' = [self EXCEPT !.errors = Append(@, reason[Len(packs)])]
  /\ pc' = "caught"
  /\ UNCHANGED <<items, count, outcome, packs, chain, inner, reason, cds, st>>
  /\ UNCHANGED <<kind, nreg, ops, lateReg, cbThrows, order>>
  /\ UNCHANGED mapVars
  /\ UNCHANGED restVars

\* pack, .then(() => { self.resolve(self) })
PackThen ==
  /\ \/ pc = "chained" /\ Last("fulfilled")
     \/ pc = "caught"
  /\ self' = [self EXCEPT !.calls = @ + 1]
  /\ pc' = "done"
  /\ UNCHANGED <<items, count, outcome, packs, chain, inner, reason, cds, st>>
  /\ UNCHANGED <<kind, nreg, ops, lateReg, cbThrows, order>>
  /\ UNCHANGED mapVars
  /\ UNCHANGED restVars

\* ------------------------------------------------------ harness: one pack

\* the caller runs cd.pack(items, count, promiser) on a fresh ListCountdown
CallPack ==
  /\ pc = "ready"
  /\ pack(items, count)
  /\ UNCHANGED <<items, count, outcome, st>>
  /\ UNCHANGED <<self, kind, nreg, ops, lateReg, cbThrows, order>>
  /\ UNCHANGED mapVars
  /\ UNCHANGED restVars

InitPack ==
  /\ self = Countdown
  /\ CdIdle
  /\ \E m \in 0..MaxItems :
       /\ items = [i \in 1..m |-> i]
       /\ outcome \in [1..m -> {"resolve", "reject", "throw"}]
       /\ st = [i \in 1..m |-> "idle"]
  /\ count \in 1..MaxCount
  /\ packs = <<>>
  /\ chain = <<>>
  /\ inner = <<>>
  /\ reason = <<>>
  /\ cds = <<>>
  /\ pc = "ready"
  /\ MapIdle
  /\ FsIdle
  /\ LoopIdle

NextPack ==
  \/ CallPack
  \/ \E k \in 1..MaxItems + 1 : ChainStart(k)
  \/ \E i \in 1..MaxItems : ItemResolve(i)
  \/ \E i \in 1..MaxItems : ItemReject(i)
  \/ \E k \in 1..MaxItems + 1 : ChainMerge(k)
  \/ \E k \in 1..MaxItems + 1 : ChainReject(k)
  \/ PackCatch
  \/ PackThen

SpecPack == InitPack /\ [][NextPack]_vars

\* every reaction that can run does run, and every outstanding promise settles
FairPack == SpecPack /\ WF_vars(NextPack)


\* ------------------------------------------- main script: one mapping

\* nconf.get('maps').forEach((mapping) => { ... }): a mapping whose scanner,
\* provider, expire and threshold are all defined starts scanner.scan
RunMapping ==
  /\ mapSt = "init"
  /\ mapSt' = IF cfg = "ok" THEN "scanning" ELSE "skipped"
  /\ UNCHANGED <<cfg, signSt, pushSt, log>>
  /\ UNCHANGED cdVars
  /\ UNCHANGED packVars
  /\ UNCHANGED restVars

\* scanner.scan(threshold).then((certs) => new Promise((resolve, reject) => {
\* let cd = new countdown.List(resolve); cd.pack(certs, concurrency, ...) }))
ScanThen ==
  /\ mapSt = "scanning"
  /\ mapSt' = "renewing"
  /\ pack(items, count)
  /\ UNCHANGED <<items, count, outcome, st>>
  /\ UNCHANGED <<cfg, signSt, pushSt, log>>
  /\ UNCHANGED cdVars
  /\ UNCHANGED restVars

\* scan rejects: .catch((err) => { winston.warn('Error processing mapping') })
ScanCatch ==
  /\ mapSt = "scanning"
  /\ mapSt' = "failed"
  /\ log' = log \cup {<<"Error processing mapping", 0>>}
  /\ UNCHANGED <<cfg, signSt, pushSt>>
  /\ UNCHANGED cdVars
  /\ UNCHANGED packVars
  /\ UNCHANGED restVars

\* the promise of provider.sign(cert, expire) resolves
SignResolve(i) ==
  /\ i \in DOMAIN signSt
  /\ signSt[i] = "pending"
  /\ signSt' = [signSt EXCEPT ![i] = "resolved"]
  /\ UNCHANGED <<mapSt, cfg, pushSt, log>>
  /\ UNCHANGED cdVars
  /\ UNCHANGED packVars
  /\ UNCHANGED restVars

\* the promise of provider.sign(cert, expire) rejects
SignReject(i) ==
  /\ i \in DOMAIN signSt
  /\ signSt[i] = "pending"
  /\ signSt' = [signSt EXCEPT ![i] = "rejected"]
  /\ UNCHANGED <<mapSt, cfg, pushSt, log>>
  /\ UNCHANGED cdVars
  /\ UNCHANGED packVars
  /\ UNCHANGED restVars

\* .catch((err) => { winston.warn('Error signing cert %s: %j', ...) })
SignCatch(i) ==
  /\ i \in DOMAIN signSt
  /\ signSt[i] = "rejected"
  /\ <<"Error signing cert", i>> \notin log
  /\ log' = log \cup {<<"Error signing cert", i>>}
  /\ UNCHANGED <<mapSt, cfg, signSt, pushSt>>
  /\ UNCHANGED cdVars
  /\ UNCHANGED packVars
  /\ UNCHANGED restVars

\* the promise of sign(...).catch(...) is fulfilled: with sign's value, or
\* with the undefined that the catch-callback returns
SignCaught(i) ==
  IF signSt[i] = "resolved" THEN TRUE
  ELSE IF signSt[i] = "rejected" THEN <<"Error signing cert", i>> \in log
  ELSE FALSE

\* .then(() => { return scanner.push(cert) })
PushStart(i) ==
  /\ i \in DOMAIN signSt
  /\ SignCaught(i)
  /\ pushSt[i] = "none"
  /\ pushSt' = [pushSt EXCEPT ![i] = "pending"]
  /\ UNCHANGED <<mapSt, cfg, signSt, log>>
  /\ UNCHANGED cdVars
  /\ UNCHANGED packVars
  /\ UNCHANGED restVars

\* the promise of scanner.push(cert) resolves
PushResolve(i) ==
  /\ i \in DOMAIN pushSt
  /\ pushSt[i] = "pending"
  /\ pushSt' = [pushSt EXCEPT ![i] = "resolved"]
  /\ UNCHANGED <<mapSt, cfg, signSt, log>>
  /\ UNCHANGED cdVars
  /\ UNCHANGED packVars
  /\ UNCHANGED restVars

\* the promise of scanner.push(cert) rejects
PushReject(i) ==
  /\ i \in DOMAIN pushSt
  /\ pushSt[i] = "pending"
  /\ pushSt' = [pushSt EXCEPT ![i] = "rejected"]
  /\ UNCHANGED <<mapSt, cfg, signSt, log>>
  /\ UNCHANGED cdVars
  /\ UNCHANGED packVars
  /\ UNCHANGED restVars

\* .then(() => { winston.info('Renewed certificate %s', cert.id) })
LogRenewed(i) ==
  /\ i \in DOMAIN pushSt
  /\ pushSt[i] = "resolved"
  /\ <<"Renewed certificate", i>> \notin log
  /\ log' = log \cup {<<"Renewed certificate", i>>}
  /\ UNCHANGED <<mapSt, cfg, signSt, pushSt>>
  /\ UNCHANGED cdVars
  /\ UNCHANGED packVars
  /\ UNCHANGED restVars

\* .catch((err) => { winston.warn('Error pushing cert %s: %j', ...) })
LogPushError(i) ==
  /\ i \in DOMAIN pushSt
  /\ pushSt[i] = "rejected"
  /\ <<"Error pushing cert", i>> \notin log
  /\ log' = log \cup {<<"Error pushing cert", i>>}
  /\ UNCHANGED <<mapSt, cfg, signSt, pushSt>>
  /\ UNCHANGED cdVars
  /\ UNCHANGED packVars
  /\ UNCHANGED restVars

\* the shapes of a mapping: complete, or one of its four fields undefined
Shapes == {"ok", "no scanner", "no provider", "no expire", "no threshold"}

InitMapping ==
  /\ self = Countdown
  /\ CdIdle
  /\ \E m \in 0..MaxCerts :
       /\ items = [i \in 1..m |-> i]
       /\ outcome = [i \in 1..m |-> "renew"]
       /\ st = [i \in 1..m |-> "idle"]
       /\ signSt = [i \in 1..m |-> "none"]
       /\ pushSt = [i \in 1..m |-> "none"]
  /\ count \in 1..MaxConcurrency
  /\ packs = <<>>
  /\ chain = <<>>
  /\ inner = <<>>
  /\ reason = <<>>
  /\ cds = <<>>
  /\ pc = "off"
  /\ mapSt = "init"
  /\ cfg \in Shapes
  /\ log = {}
  /\ FsIdle
  /\ LoopIdle

NextMapping ==
  \/ RunMapping
  \/ ScanThen
  \/ ScanCatch
  \/ \E k \in 1..MaxCerts + 1 : ChainStart(k)
  \/ \E k \in 1..MaxCerts + 1 : ChainReject(k)
  \/ PackCatch
  \/ PackThen
  \/ \E i \in 1..MaxCerts : SignResolve(i)
  \/ \E i \in 1..MaxCerts : SignReject(i)
  \/ \E i \in 1..MaxCerts : SignCatch(i)
  \/ \E i \in 1..MaxCerts : PushStart(i)
  \/ \E i \in 1..MaxCerts : PushResolve(i)
  \/ \E i \in 1..MaxCerts : PushReject(i)
  \/ \E i \in 1..MaxCerts : LogRenewed(i)
  \/ \E i \in 1..MaxCerts : LogPushError(i)

SpecMapping == InitMapping /\ [][NextMapping]_vars

\* NextMapping leaves out ItemResolve, ItemReject and ChainMerge: the promiser
\* of the main script returns undefined, so no promise is ever registered on a
\* pack's countdown and no pack's promise is ever fulfilled.


\* ------------------------------------------------- lib/scanners.js

\* a promise registered on a countdown together with the way it settles
Op(key, o) == [key |-> key, outcome |-> o, state |-> "pending"]

\* null and undefined; a moment is written <<t>>, t in hours
Null == <<>>
Undefined == <<>>
Moment(t) == <<t>>

\* cd.keyset[key], undefined when the key was never written
Get(obj, key) == IF key \in DOMAIN obj THEN obj[key] ELSE Undefined

\* the expiration field of the object that the parser of parseFile returned
\* for the promise whose data is d
ExpirationOf(d) == recs[d[2]]

\* FileScanner.parseBoth, the executor: cd = new countdown.Key(resolve);
\* cd.add('csr', parseFile(csrName, ...)); cd.add('crt', parseFile(crtName, ...)).
\* Each parseFile rejects when the read or the parser fails. The csr parser
\* returns expiration: moment(), the crt parser moment(data.notAfter).
parseBoth(oCsr, oCrt, notAfter) ==
  /\ fsPc = "parseBoth"
  /\ self' = add(add(Countdown))
  /\ ops' = <<Op("csr", oCsr), Op("crt", oCrt)>>
  /\ recs' = <<Moment(now), Moment(notAfter)>>
  /\ fsPc' = "parsing"
  /\ fsOut' = [state |-> "pending", value |-> NoReason]
  /\ UNCHANGED <<kind, nreg, lateReg, cbThrows, order, now, hours>>
  /\ UNCHANGED packVars
  /\ UNCHANGED mapVars
  /\ UNCHANGED loopVars

\* a parseBoth that takes the expiration from `csr || crt` alone
MetadataNoOverride(cd) ==
  LET csr == Get(cd.keyset, "csr")
      crt == Get(cd.keyset, "crt")
  IN  [id |-> "csrName",
       expiration |-> IF csr # Undefined THEN ExpirationOf(csr)
                      ELSE IF crt # Undefined THEN ExpirationOf(crt)
                      ELSE Null]

\* FileScanner.parseBoth, .then((cd) => { ... return data }): expiration is
\* null, then Object.assign(data, csr || crt || {}), then crt.expiration when
\* there is a crt
Metadata(cd) ==
  LET csr == Get(cd.keyset, "csr")
      crt == Get(cd.keyset, "crt")
      assigned == IF csr # Undefined THEN ExpirationOf(csr)
                  ELSE IF crt # Undefined THEN ExpirationOf(crt)
                  ELSE Null
  IN  [id |-> "csrName",
       expiration |-> IF crt # Undefined THEN ExpirationOf(crt) ELSE assigned]

\* the promise of new Promise(...) in parseBoth is fulfilled by cd's resolve
parseBothThen ==
  /\ fsPc = "parsing"
  /\ self.calls >= 1
  /\ fsOut' = [state |-> "resolved", value |-> Metadata(self)]
  /\ fsPc' = "parsed"
  /\ UNCHANGED <<recs, now, hours>>
  /\ UNCHANGED cdVars
  /\ UNCHANGED packVars
  /\ UNCHANGED mapVars
  /\ UNCHANGED loopVars

\* FileScanner.scan, the executor: cd = new countdown.List(resolve); glob(...)
scan ==
  /\ fsPc = "scan"
  /\ self' = Countdown
  /\ fsPc' = "globbing"
  /\ fsOut' = [state |-> "pending", value |-> NoReason]
  /\ UNCHANGED <<kind, nreg, ops, lateReg, cbThrows, order, recs, now, hours>>
  /\ UNCHANGED packVars
  /\ UNCHANGED mapVars
  /\ UNCHANGED loopVars

\* glob's callback with err: reject({ id: self.path, error: err })
globError ==
  /\ fsPc = "globbing"
  /\ fsOut' = [state |-> "rejected", value |-> Err(0)]
  /\ fsPc' = "scanned"
  /\ UNCHANGED <<recs, now, hours>>
  /\ UNCHANGED cdVars
  /\ UNCHANGED packVars
  /\ UNCHANGED mapVars
  /\ UNCHANGED loopVars

\* what scanFile(fname) does for one file: it rejects (realpath failed), or it
\* resolves with the metadata of parseBoth, whose expiration is null or a time
FileResults ==
  {[outcome |-> "reject", expiration |-> Null]}
  \cup {[outcome |-> "resolve", expiration |-> e] :
          e \in {Null} \cup {Moment(t) : t \in 0..MaxTime}}

\* glob's callback with the files found: for (let fname of files)
\* cd.push(self.scanFile(fname))
globFiles(found) ==
  /\ fsPc = "globbing"
  /\ self' = [self EXCEPT !.pending = @ + Len(found)]
  /\ ops' = [j \in 1..Len(found) |-> Op("none", found[j].outcome)]
  /\ recs' = [j \in 1..Len(found) |-> found[j].expiration]
  /\ fsPc' = "scanning"
  /\ UNCHANGED <<kind, nreg, lateReg, cbThrows, order, fsOut, now, hours>>
  /\ UNCHANGED packVars
  /\ UNCHANGED mapVars
  /\ UNCHANGED loopVars

\* moment a.diff(b), in hours
diff(a, b) == a[1] - b[1]

\* a record that expires at the threshold counts as expiring
ExpiringOrAt(expiration, threshold) == diff(expiration, threshold) <= 0

\* FileScanner.scan, data.expiration.diff(threshold) < 0
Expiring(expiration, threshold) == diff(expiration, threshold) < 0

\* FileScanner.scan, the callback of result.filter
Keep(expiration, threshold) ==
  IF expiration # Null THEN Expiring(expiration, threshold) ELSE FALSE

\* FileScanner.scan, .then((result) => { ... }): threshold =
\* moment().add(hoursToExp, 'h'); return result.values.filter(...)
Filter(values, h) ==
  LET threshold == Moment(now + h)
      keep(d) == Keep(ExpirationOf(d), threshold)
  IN  SelectSeq(values, keep)

scanThen ==
  /\ fsPc = "scanning"
  /\ self.calls >= 1
  /\ fsOut' = [state |-> "resolved", value |-> Filter(self.values, hours)]
  /\ fsPc' = "scanned"
  /\ UNCHANGED <<recs, now, hours>>
  /\ UNCHANGED cdVars
  /\ UNCHANGED packVars
  /\ UNCHANGED mapVars
  /\ UNCHANGED loopVars

\* item.error before push: absent, or left there by a failed provider.sign
ItemErrors == {Undefined, Err(0)}

\* FileScanner.push, the executor: the two file names are derived from
\* item.id, then cd = new countdown.Key(resolve); cd.add('crt', savePem(...));
\* cd.add('key', savePem(...)). When deriving a name throws, the catch sets
\* item.error and rejects before anything is written.
fsPush(throws, oCrt, oKey) ==
  /\ fsPc = "push"
  /\ IF throws
       THEN /\ fsOut' = [state |-> "rejected",
                         value |-> [id |-> "item", error |-> Thrown(0)]]
            /\ fsPc' = "pushed"
            /\ UNCHANGED <<self, ops>>
       ELSE /\ self' = add(add(Countdown))
            /\ ops' = <<Op("crt", oCrt), Op("key", oKey)>>
            /\ fsOut' = [fsOut EXCEPT !.state = "pending"]
            /\ fsPc' = "writing"
  /\ UNCHANGED <<kind, nreg, lateReg, cbThrows, order, recs, now, hours>>
  /\ UNCHANGED packVars
  /\ UNCHANGED mapVars
  /\ UNCHANGED loopVars

\* a push that looks at the certificate write only
SaveErrorsCrtOnly(cd) ==
  IF Get(cd.errset, "crt") # Undefined THEN <<cd.errset["crt"]>> ELSE <<>>

\* FileScanner.push: if (cd.errset.crt) errors.push(cd.errset.crt);
\* if (cd.errset.key) errors.push(cd.errset.key)
SaveErrors(cd) ==
  (IF Get(cd.errset, "crt") # Undefined THEN <<cd.errset["crt"]>> ELSE <<>>)
  \o (IF Get(cd.errset, "key") # Undefined THEN <<cd.errset["key"]>> ELSE <<>>)

\* FileScanner.push, .then((cd) => { ... }): with errors, item.error = errors
\* and throw item; without, delete item.error and return item
fsPushThen ==
  /\ fsPc = "writing"
  /\ self.calls >= 1
  /\ LET errors == SaveErrors(self)
     IN  fsOut' = IF Len(errors) > 0
                    THEN [state |-> "rejected",
                          value |-> [id |-> "item", error |-> errors]]
                    ELSE [state |-> "resolved",
                          value |-> [id |-> "item", error |-> Undefined]]
  /\ fsPc' = "pushed"
  /\ UNCHANGED <<recs, now, hours>>
  /\ UNCHANGED cdVars
  /\ UNCHANGED packVars
  /\ UNCHANGED mapVars
  /\ UNCHANGED loopVars

\* ------------------------------------- harness: one FileScanner method

Outcomes == {"resolve", "reject"}

RECURSIVE SeqsOf(_, _)
SeqsOf(S, n) ==
  IF n = 0 THEN {<<>>}
  ELSE {Append(q, x) : q \in SeqsOf(S, n - 1), x \in S}

InitFileScanner ==
  /\ self = Countdown
  /\ fsPc \in {"parseBoth", "scan", "push"}
  /\ kind = IF fsPc = "scan" THEN "List" ELSE "Key"
  /\ nreg = 0
  /\ ops = <<>>
  /\ lateReg = FALSE
  /\ cbThrows = FALSE
  /\ order = <<>>
  /\ fsOut \in {[state |-> "none", value |-> [id |-> "item", error |-> e]] :
                  e \in IF fsPc = "push" THEN ItemErrors ELSE {Undefined}}
  /\ recs = <<>>
  /\ now \in 0..MaxNow
  /\ hours \in IF fsPc = "scan" THEN 0..MaxHours ELSE {0}
  /\ PackIdle
  /\ MapIdle
  /\ LoopIdle

NextFileScanner ==
  \/ \E oCsr \in Outcomes, oCrt \in Outcomes, notAfter \in 0..MaxTime :
       parseBoth(oCsr, oCrt, notAfter)
  \/ parseBothThen
  \/ scan
  \/ globError
  \/ \E n \in 0..MaxFiles : \E found \in SeqsOf(FileResults, n) : globFiles(found)
  \/ scanThen
  \/ \E throws \in BOOLEAN, oCrt \in Outcomes, oKey \in Outcomes :
       fsPush(throws, oCrt, oKey)
  \/ fsPushThen
  \/ \E j \in 1..MaxFiles + 2 : SettleResolve(j)
  \/ \E j \in 1..MaxFiles + 2 : SettleReject(j)

SpecFileScanner == InitFileScanner /\ [][NextFileScanner]_vars

\* ---------------------------------------- main script: the mapping loop

\* one entry of nconf.get('maps') with what its run meets: the promise of
\* scanner.scan resolves, rejects or never settles; the countdown of the batch
\* calls its resolve or never does (the executor of the batch never rejects)
Mappings ==
  {[cfg |-> c, scan |-> "never", batch |-> "never"] : c \in Shapes \ {"ok"}}
  \cup {[cfg |-> "ok", scan |-> s, batch |-> "never"] : s \in {"reject", "never"}}
  \cup {[cfg |-> "ok", scan |-> "resolve", batch |-> b] : b \in {"complete", "never"}}

\* nconf.get('maps').forEach((mapping) => { if (scanner !== undefined && ...)
\* scanner.scan(threshold).then(...).catch(...) }): one iteration; the loop
\* is synchronous and waits for nothing
forEach(m) ==
  /\ mi = m - 1
  /\ m <= Len(maps)
  /\ mi' = m
  /\ mst' = [mst EXCEPT ![m] = IF maps[m].cfg = "ok" THEN "scanning" ELSE "skipped"]
  /\ UNCHANGED <<maps, fsPc, fsOut, recs, now, hours>>
  /\ UNCHANGED cdVars
  /\ UNCHANGED packVars
  /\ UNCHANGED mapVars

\* a loop that runs the mappings one after the other
TurnInOrder(m) ==
  /\ mi = Len(maps)
  /\ \A k \in 1..Len(maps) : k < m => mst[k] \in {"skipped", "failed", "done"}

\* the callbacks of the promises run after the synchronous loop has ended
Turn(m) == mi = Len(maps)

\* the promise of scanner.scan of mapping m resolves: the .then callback
\* builds the batch of this mapping on its own countdown
MapScanThen(m) ==
  /\ m <= Len(maps)
  /\ Turn(m)
  /\ mst[m] = "scanning"
  /\ maps[m].scan = "resolve"
  /\ mst' = [mst EXCEPT ![m] = "renewing"]
  /\ UNCHANGED <<mi, maps, fsPc, fsOut, recs, now, hours>>
  /\ UNCHANGED cdVars
  /\ UNCHANGED packVars
  /\ UNCHANGED mapVars

\* the promise of scanner.scan of mapping m rejects:
\* .catch((err) => { winston.warn('Error processing mapping', ...) })
MapScanCatch(m) ==
  /\ m <= Len(maps)
  /\ Turn(m)
  /\ mst[m] = "scanning"
  /\ maps[m].scan = "reject"
  /\ mst' = [mst EXCEPT ![m] = "failed"]
  /\ UNCHANGED <<mi, maps, fsPc, fsOut, recs, now, hours>>
  /\ UNCHANGED cdVars
  /\ UNCHANGED packVars
  /\ UNCHANGED mapVars

\* the countdown of the batch of mapping m calls resolve
MapBatchDone(m) ==
  /\ m <= Len(maps)
  /\ Turn(m)
  /\ mst[m] = "renewing"
  /\ maps[m].batch = "complete"
  /\ mst' = [mst EXCEPT ![m] = "done"]
  /\ UNCHANGED <<mi, maps, fsPc, fsOut, recs, now, hours>>
  /\ UNCHANGED cdVars
  /\ UNCHANGED packVars
  /\ UNCHANGED mapVars

InitLoop ==
  /\ self = Countdown
  /\ CdIdle
  /\ PackIdle
  /\ MapIdle
  /\ FsIdle
  /\ mi = 0
  /\ \E n \in 0..MaxMaps : maps \in SeqsOf(Mappings, n)
  /\ mst = [m \in 1..Len(maps) |-> "todo"]

NextLoop ==
  \/ \E m \in 1..MaxMaps : forEach(m)
  \/ \E m \in 1..MaxMaps : MapScanThen(m)
  \/ \E m \in 1..MaxMaps : MapScanCatch(m)
  \/ \E m \in 1..MaxMaps : MapBatchDone(m)

SpecLoop == InitLoop /\ [][NextLoop]_vars

\* ------------------------------------------------------------ properties

\* every registered operation has settled and every callback due for it has run
AllSettled == \A j \in 1..Len(ops) : ops[j].state = "settled"

InSeq(x, seq) == \E j \in 1..Len(seq) : seq[j] = x

\* number of entries of values and errors that belong to item i
Occurrences(i) ==
  Cardinality({j \in 1..Len(self.values) : self.values[j][2] = i})
  + Cardinality({j \in 1..Len(self.errors) : self.errors[j][2] = i})

Outstanding == {i \in DOMAIN st : st[i] = "outstanding"}

Started(i) == st[i] \in {"outstanding", "settled"}

Only(kinds) == \A i \in DOMAIN outcome : outcome[i] \in kinds

Exactly(n, k) == Cardinality({i \in DOMAIN outcome : outcome[i] = k}) = n

\* nothing is left to run: no reaction is ready and no promise is outstanding
PackStopped == ~ENABLED NextPack

MappingStopped == ~ENABLED NextMapping

RECURSIVE Flatten(_)
Flatten(seqs) == IF seqs = <<>> THEN <<>> ELSE Head(seqs) \o Flatten(Tail(seqs))

CeilDiv(m, n) == (m + n - 1) \div n

\* C1: completion exactness. When all N >= 0 operations are registered on one
\* countdown before any of them settles, the terminal callback is invoked at
\* most once, only when all N have settled, and it has been invoked once all N
\* have settled (N = 0 included).
C1_CompletionExactness ==
  ~lateReg =>
    /\ self.calls <= 1
    /\ self.calls = 1 => (Len(ops) = nreg /\ AllSettled)
    /\ (Len(ops) = nreg /\ AllSettled) => self.calls = 1

\* C2: batch completion. A pack over M >= 1 items whose promiser returns a
\* promise for every item eventually invokes the terminal callback, and never
\* more than once, whatever number of these promises reject.
C2_BatchCompletion ==
  /\ (Len(items) >= 1 /\ Only({"resolve", "reject"})) => <>(self.calls = 1)
  /\ [](self.calls <= 1)

\* C3: packing bound. At most `count` per-item operations are outstanding, and
\* an item of a later pack is started only when every item of every earlier
\* pack has settled.
C3_PackingBound ==
  /\ Cardinality(Outstanding) <= count
  /\ \A i \in DOMAIN st, j \in DOMAIN st :
       (Started(j) /\ GroupOf(i) < GroupOf(j)) => st[i] = "settled"

\* a state of the case C3 is about: the second pack runs at full width
C3_Witness ==
  /\ count >= 2
  /\ Cardinality(Outstanding) = count
  /\ \E i \in Outstanding : GroupOf(i) = 2

\* C4: isolation. When exactly one item's promise rejects and all others
\* resolve, the run ends with every item settled, every other item's value in
\* values, the failure in errors, and the terminal callback invoked.
C4_Isolation ==
  (Exactly(1, "reject") /\ Only({"resolve", "reject"}) /\ PackStopped) =>
    /\ \A i \in DOMAIN st : st[i] = "settled"
    /\ \A i \in DOMAIN st : outcome[i] = "resolve" => InSeq(Data(i), self.values)
    /\ \A i \in DOMAIN st : outcome[i] = "reject" => InSeq(Err(i), self.errors)
    /\ self.calls = 1

\* C5: empty input. A pack over zero items invokes the terminal callback, with
\* values and errors empty.
C5_EmptyInput ==
  (Len(items) = 0 /\ PackStopped) =>
    /\ self.calls = 1
    /\ self.values = <<>>
    /\ self.errors = <<>>

\* C6: a synchronous throw is folded. When promiser throws for exactly one
\* item, the run ends with the exception in errors, every other item started,
\* settled and recorded in values or errors, and the terminal callback invoked.
C6_ThrowFolded ==
  (Exactly(1, "throw") /\ PackStopped) =>
    /\ \A i \in DOMAIN st : outcome[i] = "throw" => InSeq(Thrown(i), self.errors)
    /\ \A i \in DOMAIN st : outcome[i] # "throw" => st[i] = "settled"
    /\ \A i \in DOMAIN st : outcome[i] = "resolve" => InSeq(Data(i), self.values)
    /\ \A i \in DOMAIN st : outcome[i] = "reject" => InSeq(Err(i), self.errors)
    /\ self.calls = 1

\* C7: completion only after settlement. Once the terminal callback of a pack
\* has been invoked, no per-item operation of the pack is outstanding and every
\* input item has exactly one entry in values or errors.
C7_CompletionAfterSettlement ==
  (pc # "off" /\ self.calls >= 1) =>
    /\ Outstanding = {}
    /\ \A i \in DOMAIN st : Occurrences(i) = 1

\* C8: group partition. The packs handed to _chain are consecutive runs of the
\* input in input order, each of at most `count` items, and there are exactly
\* ceil(M / count) of them.
C8_GroupPartition ==
  pc \in {"chained", "caught", "done"} =>
    /\ Flatten(packs) = items
    /\ \A k \in 1..Len(packs) : Len(packs[k]) <= count
    /\ Len(packs) = CeilDiv(Len(items), count)

\* C9: no push after a failed sign. scanner.push is invoked for a cert only
\* when its provider.sign has resolved.
C9_NoPushAfterFailedSign ==
  \A i \in DOMAIN signSt : pushSt[i] # "none" => signSt[i] = "resolved"

\* C10: every record is renewed. When the run of a mapping whose scan resolved
\* has nothing left to do, provider.sign has been invoked for every record of
\* the scan, and scanner.push for every record whose sign resolved.
C10_EveryRecordRenewed ==
  (mapSt = "renewing" /\ MappingStopped) =>
    \A i \in DOMAIN signSt :
      /\ signSt[i] # "none"
      /\ signSt[i] = "resolved" => pushSt[i] # "none"


\* C11: per-item outcomes are aggregated. When the renewal batch of a mapping
\* has completed and nothing is left to run, errors holds the failure of every
\* cert whose sign or push failed and values holds the record of every cert
\* whose sign and push both succeeded.
C11_OutcomesAggregated ==
  (mapSt = "renewing" /\ self.calls >= 1 /\ MappingStopped) =>
    \A i \in DOMAIN signSt :
      /\ (signSt[i] = "rejected" \/ pushSt[i] = "rejected") => InSeq(Err(i), self.errors)
      /\ (signSt[i] = "resolved" /\ pushSt[i] = "resolved") => InSeq(Data(i), self.values)

\* the registered operations with the given outcome, in settlement order
RECURSIVE Settled(_, _)
Settled(ord, o) ==
  IF ord = <<>> THEN <<>>
  ELSE IF ops[Head(ord)].outcome = o
         THEN <<Head(ord)>> \o Settled(Tail(ord), o)
         ELSE Settled(Tail(ord), o)

\* C12: key aggregation disjointness. Once a KeyCountdown has invoked its
\* callback and every operation added to it has settled, every added key is
\* in exactly one of keyset and errset.
C12_KeyDisjointness ==
  (kind = "Key" /\ fsPc = "off" /\ self.calls >= 1 /\ AllSettled) =>
    \A j \in 1..Len(ops) :
      (ops[j].key \in DOMAIN self.keyset) # (ops[j].key \in DOMAIN self.errset)

\* C13: completion is terminal. A countdown that has invoked its callback
\* never invokes it again, whatever is registered on it or settles later.
C13_CompletionTerminal ==
  (fsPc = "off" /\ pc = "off") => self.calls <= 1

\* C14: pending is never negative: every registered operation leads to
\* exactly one end(1), also when the resolve callback raises.
C14_PendingNeverNegative ==
  /\ self.pending >= 0
  /\ \A k \in 1..Len(cds) : cds[k].pending >= 0

\* C15: order-independent completion. When the operations registered on a
\* ListCountdown have all settled, in whatever order, pending is 0, values
\* holds exactly the data of the resolved operations and errors exactly the
\* failures of the rejected ones, each in settlement order.
C15_OrderIndependent ==
  (kind = "List" /\ pc = "off" /\ fsPc = "off" /\ Len(ops) = nreg /\ AllSettled
     /\ nreg >= 1) =>
    /\ self.pending = 0
    /\ self.values = [n \in 1..Len(Settled(order, "resolve")) |->
                        Data(Settled(order, "resolve")[n])]
    /\ self.errors = [n \in 1..Len(Settled(order, "reject")) |->
                        Err(Settled(order, "reject")[n])]


\* ------------------------------------------------ FileScanner properties

FsStopped == ~ENABLED NextFileScanner

\* the record of file j is eligible at the threshold now + hours
Eligible(j) ==
  IF recs[j] = Null THEN FALSE ELSE recs[j][1] < now + hours

\* number of times the record of file j is in the sequence q
Times(j, q) == Cardinality({n \in 1..Len(q) : q[n] = Data(j)})

\* C16: what scan resolves with holds exactly the discovered records whose
\* expiration is not null and strictly earlier than now + threshold hours,
\* each once; a record with a null expiration, or with one at or after
\* now + threshold, is not returned.
C16_Filter ==
  (fsPc = "scanned" /\ fsOut.state = "resolved") =>
    \A j \in 1..Len(ops) :
      Times(j, fsOut.value) =
        IF InSeq(Data(j), self.values) /\ Eligible(j) THEN 1 ELSE 0

\* two records were discovered, one expiring before the threshold and one
\* expiring exactly at it, and scan returned the first alone
C16_Witness ==
  /\ fsPc = "scanned"
  /\ fsOut.state = "resolved"
  /\ Len(self.values) = 2
  /\ hours > 0
  /\ recs[1] = Moment(now)
  /\ recs[2] = Moment(now + hours)
  /\ fsOut.value = <<Data(1)>>

C19_ScanSettles ==
  (fsPc \in {"scanning", "scanned"} /\ AllSettled /\ FsStopped) =>
    fsOut.state \in {"resolved", "rejected"}

\* the writes that failed, certificate first
Failed == SelectSeq(<<1, 2>>, LAMBDA j : ops[j].outcome = "reject")

\* C20 as stated: push starts both writes, settles after both have settled,
\* resolves with the item without an error field if and only if both
\* succeeded, and otherwise rejects with the failures in the error field.
C20_BothWritesStarted ==
  fsPc = "pushed" =>
    /\ Len(ops) = 2
    /\ AllSettled
    /\ fsOut.state = IF Len(Failed) = 0 THEN "resolved" ELSE "rejected"
    /\ fsOut.value.error =
         IF Len(Failed) = 0 THEN Undefined ELSE [n \in 1..Len(Failed) |-> Err(Failed[n])]

\* C20: when the file names can be derived, push starts both writes, settles
\* only after both have settled, resolves with the item without an error
\* field if and only if both succeeded, and otherwise rejects with the item
\* whose error field lists the failures, certificate first. When deriving a
\* file name throws, push starts no write and rejects with the item whose
\* error field is the exception.
C20_PersistOutcome ==
  /\ (fsPc = "writing" /\ ~AllSettled) => fsOut.state = "pending"
  /\ fsPc = "pushed" =>
       IF Len(ops) = 0
         THEN /\ fsOut.state = "rejected"
              /\ fsOut.value = [id |-> "item", error |-> Thrown(0)]
         ELSE /\ Len(ops) = 2
              /\ AllSettled
              /\ IF Len(Failed) = 0
                   THEN /\ fsOut.state = "resolved"
                        /\ fsOut.value = [id |-> "item", error |-> Undefined]
                   ELSE /\ fsOut.state = "rejected"
                        /\ fsOut.value.id = "item"
                        /\ fsOut.value.error = [n \in 1..Len(Failed) |-> Err(Failed[n])]

\* the certificate was written, the key was not, and push rejected with the
\* failure of the key write
C20_Witness ==
  /\ fsPc = "pushed"
  /\ Len(ops) = 2
  /\ ops[1].outcome = "resolve"
  /\ ops[2].outcome = "reject"
  /\ fsOut.state = "rejected"
  /\ fsOut.value.error = <<Err(2)>>


\* -------------------------------------------------- mapping loop properties

LoopStopped == ~ENABLED NextLoop

\* where the run of a mapping ends when it is the only one configured
Alone(mapping) ==
  IF mapping.cfg # "ok" THEN "skipped"
  ELSE IF mapping.scan = "reject" THEN "failed"
  ELSE IF mapping.scan = "never" THEN "scanning"
  ELSE IF mapping.batch = "complete" THEN "done"
  ELSE "renewing"

\* C17: the loop gets to every mapping, and each mapping's run starts its
\* scan, starts its batch and ends as it would on its own, whatever another
\* mapping does: fail in discovery, or never end.
C17_MappingIndependence ==
  /\ \A m \in 1..Len(maps) :
       /\ (mi = Len(maps) /\ maps[m].cfg = "ok") => mst[m] # "todo"
       /\ (mi = Len(maps) /\ mst[m] = "scanning" /\ maps[m].scan = "resolve") =>
            ENABLED MapScanThen(m)
       /\ (mi = Len(maps) /\ mst[m] = "renewing" /\ maps[m].batch = "complete") =>
            ENABLED MapBatchDone(m)
  /\ LoopStopped => \A m \in 1..Len(maps) : mst[m] = Alone(maps[m])

\* the first mapping failed in discovery or never ended, and the second
\* was scanned, renewed and completed
C17_Witness ==
  /\ Len(maps) = 2
  /\ LoopStopped
  /\ mst[1] \in {"failed", "scanning", "renewing"}
  /\ mst[2] = "done"

====
